---------------------------- MODULE Spec2Model ----------------------------
(***************************************************************************)
(* A model of src/app/page.tsx: the animation driver (the useEffect of     *)
(* Page with its render callback), the scene-element generator             *)
(* (generateTrees over mulberry32), the forest scroll of drawForest and    *)
(* the capture controller (handleRecord with the recorder's callbacks).    *)
(***************************************************************************)
EXTENDS Integers, Sequences, FiniteSets

(***************************************************************************)
(* Bounds.                                                                 *)
(***************************************************************************)
MaxMounts == 2        \* runs of the effect
MaxTicks == 3         \* animation frame timestamps are 0 .. MaxTicks seconds
MaxSessions == 3      \* recorders created
MaxCount == 25        \* counts passed to generateTrees directly
MaxElapsedSteps == 9  \* elapsed times passed to drawForest directly
ElapsedStep == 40     \* ... in steps of this many seconds

(***************************************************************************)
(* 32-bit words.  TLC's integers are 32-bit signed, so an unsigned 32-bit  *)
(* word is kept as a pair <<hi, lo>> of 16-bit halves.                     *)
(***************************************************************************)
RECURSIVE Pow2(_)
Pow2(k) == IF k = 0 THEN 1 ELSE 2 * Pow2(k - 1)

Half == Pow2(16)

RECURSIVE Xor16(_, _, _)
\* a ^ b on 16-bit halves, bit by bit (n bits left)
Xor16(a, b, n) ==
  IF n = 0 THEN 0
  ELSE (((a % 2) + (b % 2)) % 2) + 2 * Xor16(a \div 2, b \div 2, n - 1)

RECURSIVE Or16(_, _, _)
\* a | b on 16-bit halves
Or16(a, b, n) ==
  IF n = 0 THEN 0
  ELSE (IF a % 2 = 1 \/ b % 2 = 1 THEN 1 ELSE 0)
         + 2 * Or16(a \div 2, b \div 2, n - 1)

Xor32(a, b) == << Xor16(a[1], b[1], 16), Xor16(a[2], b[2], 16) >>

\* t | c for a constant c < 65536 (the code uses t | 1 and t | 61)
OrLow(a, c) == << a[1], Or16(a[2], c, 16) >>

\* a + b, wrapped to 32 bits
Add32(a, b) ==
  LET lo == a[2] + b[2]
  IN  << (a[1] + b[1] + (lo \div Half)) % Half, lo % Half >>

\* t >>> k for 0 < k < 16
Shr32(a, k) ==
  << a[1] \div Pow2(k),
     (a[2] \div Pow2(k)) + (a[1] % Pow2(k)) * Pow2(16 - k) >>

\* the full 32-bit product of two 16-bit halves, no intermediate above 2^31
Mul16(a, b) ==
  LET p1 == a * (b \div 256)
      p0 == a * (b % 256)
  IN  Add32(<< p1 \div 256, (p1 % 256) * 256 >>, << p0 \div Half, p0 % Half >>)

\* Math.imul: the low 32 bits of a * b
Imul(a, b) ==
  LET ll == Mul16(a[2], b[2])
      cross == (Mul16(a[1], b[2])[2] + Mul16(a[2], b[1])[2]) % Half
  IN  << (ll[1] + cross) % Half, ll[2] >>

(***************************************************************************)
(* mulberry32 (page.tsx 389-396).  The closure's counter a is kept modulo  *)
(* 2^32: the code lets the double grow, and every use of it goes through a *)
(* 32-bit operator.                                                        *)
(***************************************************************************)
Seed == << 1, 57920 >>          \* 123456 = 1 * 65536 + 57920
Gamma == << 27947, 31221 >>     \* 0x6d2b79f5

\* the 32-bit numerator of the value a call returns, given the advanced counter
mulberry32Out(a) ==
  LET t1 == Imul(Xor32(a, Shr32(a, 15)), OrLow(a, 1))
      t2 == Xor32(t1, Add32(t1, Imul(Xor32(t1, Shr32(t1, 7)), OrLow(t1, 61))))
  IN  Xor32(t2, Shr32(t2, 14))

(***************************************************************************)
(* generateTrees (page.tsx 214-227).  A descriptor keeps layer, the floor  *)
(* of x, and i, the index it was pushed at; baseY, height, width and hue   *)
(* are floats no claim reads, but each still draws from the generator.     *)
(***************************************************************************)
Width == 1280
Height == 720
TreeCount == 24
RngCallsPerTree == 5

\* floor(u / 2^32 * W * 2 - W * 0.5) for the numerator u of an rng() value
TreeX(u, W) ==
  ((u[1] * (2 * W) + ((u[2] * (2 * W)) \div Half)) \div Half) - (W \div 2)

\* the counter after n < 65536 calls: n steps of mulberry32Step, wrapped
Advance(a, n) == Add32(a, Imul(Gamma, << 0, n >>))

\* rng = mulberry32(123456) of line 215: rng[k] is the numerator of the value
\* its k-th call returns
rng ==
  [k \in 1..(RngCallsPerTree * (IF MaxCount > TreeCount THEN MaxCount ELSE TreeCount))
     |-> mulberry32Out(Advance(Seed, k))]

RECURSIVE PushTrees(_, _, _)
\* the for loop, iterations i .. count-1; iteration i makes calls
\* RngCallsPerTree * i + 1 .. RngCallsPerTree * (i + 1) of rng, the first for x
PushTrees(i, count, W) ==
  IF i >= count THEN << >>
  ELSE << [layer |-> i % 3, x |-> TreeX(rng[RngCallsPerTree * i + 1], W), i |-> i] >>
         \o PushTrees(i + 1, count, W)

RECURSIVE InsertByLayer(_, _)
\* put tr after every element whose layer is <= its own (a stable insertion)
InsertByLayer(s, tr) ==
  IF s = << >> THEN << tr >>
  ELSE IF Head(s).layer - tr.layer <= 0
       THEN << Head(s) >> \o InsertByLayer(Tail(s), tr)
       ELSE << tr >> \o s

RECURSIVE SortByLayer(_)
\* trees.sort((a, b) => a.layer - b.layer): a stable sort on layer
SortByLayer(s) ==
  IF s = << >> THEN << >>
  ELSE InsertByLayer(SortByLayer(SubSeq(s, 1, Len(s) - 1)), s[Len(s)])

\* generateTrees without the sort of line 226
generateTreesUnsorted(count, W, H) == PushTrees(0, count, W)

generateTrees(count, W, H) == SortByLayer(PushTrees(0, count, W))

(***************************************************************************)
(* drawForest's screen position (page.tsx 231-232).                        *)
(***************************************************************************)
\* JavaScript's %: the remainder takes the sign of the dividend
JsRem(a, m) == IF a >= 0 THEN a % m ELSE -((-a) % m)

LayerSpeed(layer) == << 8, 16, 32 >>[layer + 1]

ScreenX(tr, t, W) == JsRem(tr.x - t * LayerSpeed(tr.layer), W * 2) + W

\* the for loop of drawForest: one painted tree (trunk, then canopy) per
\* descriptor, in the order of the list
drawForest(trees, t, W) ==
  [k \in 1..Len(trees) |->
     [op |-> "tree", layer |-> trees[k].layer, i |-> trees[k].i,
      px |-> ScreenX(trees[k], t, W)]]

(***************************************************************************)
(* State.                                                                  *)
(***************************************************************************)
VARIABLES
  animRef,    \* animRef.current (page.tsx 15-21)
  effects,    \* the runs of the useEffect: state, first raf id, trees
  nEffects,   \* how many times the effect has run
  rafQueue,   \* the host's list of animation frame callbacks, in order
  nextRafId,  \* the id the next requestAnimationFrame returns
  now,        \* the timestamp of the last animation frame (-1: none yet)
  frameLog,   \* what each callback of the last animation frame did
  drawn,      \* per effect run, how many of its callbacks have drawn
  recState,   \* useState<RecordingState>
  videoUrl,   \* useState: 0 is null, s > 0 the object URL of session s
  errorMsg,   \* useState: "" is null
  env,        \* the browser: captureStream, MediaRecorder, supported types
  recs,       \* the handleRecord invocations that created a recorder
  nRecs,      \* how many of them there are
  call        \* a direct call of generateTrees and drawForest

animVars == << animRef, effects, nEffects, rafQueue, nextRafId, now, frameLog, drawn >>
recVars == << recState, videoUrl, errorMsg, env, recs, nRecs >>
vars == << animRef, effects, nEffects, rafQueue, nextRafId, now, frameLog, drawn,
           recState, videoUrl, errorMsg, env, recs, nRecs, call >>

MsPerSecond == 1000
FrameTimes == { k * MsPerSecond : k \in 0..MaxTicks }
EffectIds == 1..MaxMounts

(***************************************************************************)
(* The animation driver (page.tsx 23-73).                                  *)
(***************************************************************************)
NoTrees == << >>

Step(name) == [op |-> name, layer |-> -1, i |-> -1, px |-> 0]

\* render with the cat drawn before the ground, which then paints over it
renderStepsCatFirst(trees, elapsed, W) ==
  << Step("sky"), Step("hills") >> \o drawForest(trees, elapsed, W)
     \o << Step("cat"), Step("ground"), Step("grass"), Step("raf") >>

\* the drawing calls of one render, in the order the code issues them
renderSteps(trees, elapsed, W) ==
  << Step("sky"), Step("hills") >> \o drawForest(trees, elapsed, W)
     \o << Step("ground"), Step("cat"), Step("grass"), Step("raf") >>

\* render(t) of effect run e, on the state st = [anim, queue, nextId, log, drawn]
render(e, t, st) ==
  IF ~st.anim.running
  THEN [st EXCEPT !.log = Append(@, [effect |-> e, t |-> t, drew |-> FALSE,
                                     assigned |-> FALSE, elapsed |-> 0,
                                     steps |-> << >>])]
  ELSE LET assign == st.anim.startTime = 0
           start == IF assign THEN t ELSE st.anim.startTime
           elapsed == (t - start) \div MsPerSecond
       IN  [anim |-> [st.anim EXCEPT !.startTime = start],
            queue |-> Append(st.queue, [id |-> st.nextId, effect |-> e]),
            nextId |-> st.nextId + 1,
            log |-> Append(st.log, [effect |-> e, t |-> t, drew |-> TRUE,
                                    assigned |-> assign, elapsed |-> elapsed,
                                    steps |-> renderSteps(effects[e].trees, elapsed,
                                                          st.anim.width)]),
            drawn |-> [st.drawn EXCEPT ![e] = @ + 1]]

RECURSIVE RunCallbacks(_, _, _)
\* the host runs the callbacks that were listed when the frame began, in order;
\* a callback registered meanwhile waits for the next frame
RunCallbacks(cbs, t, st) ==
  IF cbs = << >> THEN st
  ELSE RunCallbacks(Tail(cbs), t, render(Head(cbs).effect, t, st))

\* the effect body: lines 24-68 (the canvas and its context exist)
Mount ==
  /\ nEffects < MaxMounts
  /\ \A e \in EffectIds : effects[e].state # "active"
  /\ nEffects' = nEffects + 1
  /\ animRef' = [animRef EXCEPT !.running = TRUE]
  /\ effects' = [effects EXCEPT ![nEffects + 1] =
                   [state |-> "active", raf |-> nextRafId,
                    trees |-> generateTrees(TreeCount, animRef.width, animRef.height)]]
  /\ rafQueue' = Append(rafQueue, [id |-> nextRafId, effect |-> nEffects + 1])
  /\ nextRafId' = nextRafId + 1
  /\ UNCHANGED << now, frameLog, drawn, recVars, call >>

\* cancelAnimationFrame(id)
CancelFrame(queue, id) == SelectSeq(queue, LAMBDA cb : cb.id # id)

\* the effect's cleanup: lines 69-72
Cleanup ==
  /\ \E e \in EffectIds :
       /\ effects[e].state = "active"
       /\ animRef' = [animRef EXCEPT !.running = FALSE]
       /\ rafQueue' = CancelFrame(rafQueue, effects[e].raf)
       /\ effects' = [effects EXCEPT ![e].state = "cleaned"]
  /\ UNCHANGED << nEffects, nextRafId, now, frameLog, drawn, recVars, call >>

\* one animation frame of the host at timestamp t
AnimationFrame ==
  /\ rafQueue # << >>
  /\ \E t \in FrameTimes :
       /\ t > now
       /\ LET st == RunCallbacks(rafQueue, t,
                      [anim |-> animRef, queue |-> << >>, nextId |-> nextRafId,
                       log |-> << >>, drawn |-> drawn])
          IN  /\ animRef' = st.anim
              /\ rafQueue' = st.queue
              /\ nextRafId' = st.nextId
              /\ frameLog' = st.log
              /\ drawn' = st.drawn
       /\ now' = t
  /\ UNCHANGED << effects, nEffects, recVars, call >>

InitAnim ==
  /\ animRef = [startTime |-> 0, lastTime |-> 0, running |-> FALSE,
                width |-> Width, height |-> Height]
  /\ effects = [e \in EffectIds |-> [state |-> "none", raf |-> 0, trees |-> NoTrees]]
  /\ nEffects = 0
  /\ rafQueue = << >>
  /\ nextRafId = 1
  /\ now = -1
  /\ frameLog = << >>
  /\ drawn = [e \in EffectIds |-> 0]

NextAnim == Mount \/ Cleanup \/ AnimationFrame

(***************************************************************************)
(* Direct calls of the pure functions, on arguments drawn from bounded     *)
(* sets.                                                                   *)
(***************************************************************************)
ElapsedTimes == { k * ElapsedStep : k \in 0..MaxElapsedSteps }

NoCall == [stage |-> "none", count |-> 0, trees |-> NoTrees, t |-> 0, painted |-> << >>]

CallGenerateTrees ==
  /\ call.stage = "args"
  /\ call' = [call EXCEPT !.stage = "trees",
                          !.trees = generateTrees(call.count, Width, Height)]
  /\ UNCHANGED << animVars, recVars >>

CallDrawForest ==
  /\ call.stage = "trees"
  /\ \E t \in ElapsedTimes :
       call' = [call EXCEPT !.stage = "painted", !.t = t,
                            !.painted = drawForest(call.trees, t, Width)]
  /\ UNCHANGED << animVars, recVars >>

InitCall == \E n \in 0..MaxCount : call = [NoCall EXCEPT !.stage = "args", !.count = n]

NextTrees == CallGenerateTrees \/ CallDrawForest

(***************************************************************************)
(* The capture controller (page.tsx 75-136, and the Record button of line  *)
(* 169).  The canvas ref is attached for as long as the button exists, so  *)
(* the return of line 79 is never taken from a click.  The chunks that     *)
(* ondataavailable collects are not modelled: no claim reads them.         *)
(***************************************************************************)
RecIds == 1..MaxSessions

mimeTypes == << "video/webm;codecs=vp9,opus", "video/webm;codecs=vp8,opus", "video/webm" >>

MimeSet == { mimeTypes[k] : k \in 1..Len(mimeTypes) }

Environments ==
  [captureStream : BOOLEAN, mediaRecorder : BOOLEAN, supported : SUBSET MimeSet]

\* every capability present
FullEnv == [captureStream |-> TRUE, mediaRecorder |-> TRUE, supported |-> MimeSet]

RECURSIVE FirstSupported(_, _)
\* the loop of lines 95-101 from index k: the first supported type, or ""
FirstSupported(e, k) ==
  IF k > Len(mimeTypes) THEN ""
  ELSE IF e.mediaRecorder /\ mimeTypes[k] \in e.supported THEN mimeTypes[k]
       ELSE FirstSupported(e, k + 1)

MsgNoCapture == "Canvas captureStream not supported in this browser."
MsgNoMime == "MediaRecorder with WebM is not supported by this browser."
MsgRecording == "Recording error"

\* pc: where the invocation stands.  "none": not started; "wait": in the await
\* of line 124; "stop": in the await of line 129; "threw": ended by an
\* exception of recorder.stop(); "done": returned after line 135.
\* state: the recorder's state attribute.  onstop: the handler of line 130 is
\* installed.  stopEvent: the host has a stop event queued for the recorder.
NoRec == [pc |-> "none", state |-> "inactive", mimeType |-> "",
          onstop |-> FALSE, stopEvent |-> FALSE]

\* the Record button is enabled (line 169)
ButtonEnabled == recState \notin {"recording", "processing"}

\* handleRecord without the setRecState("error") of line 83
handleRecordNoStatus ==
  /\ ButtonEnabled
  /\ LET mimeType == FirstSupported(env, 1)
     IN  IF ~env.captureStream
         THEN /\ errorMsg' = MsgNoCapture
              /\ videoUrl' = 0
              /\ UNCHANGED << recState, recs, nRecs >>
         ELSE IF mimeType = ""
         THEN /\ errorMsg' = MsgNoMime
              /\ recState' = "error"
              /\ videoUrl' = 0
              /\ UNCHANGED << recs, nRecs >>
         ELSE /\ nRecs < MaxSessions
              /\ errorMsg' = ""
              /\ videoUrl' = 0
              /\ nRecs' = nRecs + 1
              /\ recs' = [recs EXCEPT ![nRecs + 1] =
                            [pc |-> "wait", state |-> "recording",
                             mimeType |-> mimeType, onstop |-> FALSE,
                             stopEvent |-> FALSE]]
              /\ recState' = "recording"
  /\ UNCHANGED << env, animVars, call >>

\* a click on the Record button: handleRecord up to its first await
handleRecord ==
  /\ ButtonEnabled
  /\ LET mimeType == FirstSupported(env, 1)
     IN  IF ~env.captureStream
         THEN /\ errorMsg' = MsgNoCapture
              /\ recState' = "error"
              /\ videoUrl' = 0
              /\ UNCHANGED << recs, nRecs >>
         ELSE IF mimeType = ""
         THEN /\ errorMsg' = MsgNoMime
              /\ recState' = "error"
              /\ videoUrl' = 0
              /\ UNCHANGED << recs, nRecs >>
         ELSE /\ nRecs < MaxSessions
              /\ errorMsg' = ""
              /\ videoUrl' = 0
              /\ nRecs' = nRecs + 1
              /\ recs' = [recs EXCEPT ![nRecs + 1] =
                            [pc |-> "wait", state |-> "recording",
                             mimeType |-> mimeType, onstop |-> FALSE,
                             stopEvent |-> FALSE]]
              /\ recState' = "recording"
  /\ UNCHANGED << env, animVars, call >>

\* the message onerror shows for an error event whose error.message is m
ErrorText(m) == IF m = "" THEN MsgRecording ELSE m

\* The recorder of session s fails while recording.  The host inactivates the
\* recorder, fires error (onerror, lines 116-119) and then fires stop; the
\* onstop handler is installed only after recorder.stop() (line 130), which
\* has not run while the recorder is recording, so that stop event is lost.
RecorderError(s) ==
  /\ recs[s].state = "recording"
  /\ \E m \in {"", "UnknownError"} : errorMsg' = ErrorText(m)
  /\ recState' = "error"
  /\ recs' = [recs EXCEPT ![s].state = "inactive"]
  /\ UNCHANGED << videoUrl, env, nRecs, animVars, call >>

\* recorder.stop() (line 127) and the Promise executor of lines 129-131, on
\* session record r.  On an inactive recorder stop() either throws
\* InvalidStateError (throws = TRUE, the older hosts) or does nothing.
StopRecorder(r, throws) ==
  IF r.state = "recording"
  THEN [r EXCEPT !.state = "inactive", !.stopEvent = TRUE, !.onstop = TRUE,
                 !.pc = "stop"]
  ELSE IF throws THEN [r EXCEPT !.pc = "threw"]
       ELSE [r EXCEPT !.onstop = TRUE, !.pc = "stop"]

\* the timer of wait() fires for session s: lines 126-131
TimerFires(s) ==
  /\ recs[s].pc = "wait"
  /\ recState' = "processing"
  /\ \E throws \in BOOLEAN : recs' = [recs EXCEPT ![s] = StopRecorder(@, throws)]
  /\ UNCHANGED << videoUrl, errorMsg, env, nRecs, animVars, call >>

\* the host delivers the queued stop event of session s: onstop resolves the
\* promise and handleRecord runs to its end (lines 133-135)
StopEvent(s) ==
  /\ recs[s].stopEvent
  /\ recs[s].onstop
  /\ recs' = [recs EXCEPT ![s].stopEvent = FALSE, ![s].pc = "done"]
  /\ videoUrl' = s
  /\ recState' = "done"
  /\ UNCHANGED << errorMsg, env, nRecs, animVars, call >>

InitRec(envs) ==
  /\ recState = "idle"
  /\ videoUrl = 0
  /\ errorMsg = ""
  /\ env \in envs
  /\ recs = [s \in RecIds |-> NoRec]
  /\ nRecs = 0

Record == handleRecord
Failure == \E s \in RecIds : RecorderError(s)
Timer == \E s \in RecIds : TimerFires(s)
Stopped == \E s \in RecIds : StopEvent(s)

NextRec == Record \/ Failure \/ Timer \/ Stopped

(***************************************************************************)
(* Specifications.                                                         *)
(***************************************************************************)
Init == InitAnim /\ InitRec(Environments) /\ call = NoCall

Next == NextAnim \/ NextRec

\* the page: the animation driver and the capture controller together
Spec == Init /\ [][Next]_vars

\* the animation driver alone
InitDriver == InitAnim /\ InitRec({FullEnv}) /\ call = NoCall

SpecAnim == InitDriver /\ [][NextAnim]_vars

\* the page in a browser whose canvas has no captureStream: no recorder is
\* ever created there, so the recorder's callbacks and timers never run
InitNoCapture ==
  InitAnim /\ InitRec({ e \in Environments : ~e.captureStream }) /\ call = NoCall

NextNoCapture == NextAnim \/ Record

SpecNoCapture == InitNoCapture /\ [][NextNoCapture]_vars

\* the capture controller alone
SpecRec == Init /\ [][NextRec]_vars

\* the capture controller, with timers that fire and queued events that are
\* delivered; neither the user nor a recorder failure is obliged to act
FairSpecRec ==
  /\ Init
  /\ [][NextRec]_vars
  /\ \A s \in RecIds : WF_vars(TimerFires(s)) /\ WF_vars(StopEvent(s))

\* generateTrees and drawForest called directly
InitTrees == InitAnim /\ InitRec({FullEnv}) /\ InitCall

SpecTrees == InitTrees /\ [][NextTrees]_vars

(***************************************************************************)
(* Properties.                                                             *)
(***************************************************************************)

\* the chain of the data model: idle -> recording -> processing -> done | error,
\* and done | error -> recording
StatusChain ==
  { << "idle", "recording" >>, << "recording", "processing" >>,
    << "processing", "done" >>, << "processing", "error" >>,
    << "done", "recording" >>, << "error", "recording" >> }

\* C1: the recording status changes only along idle -> recording,
\* recording -> processing, processing -> done or error, and from done or error
\* only to recording, by a Record action; no other transition occurs.
C1_StatusChain ==
  [][recState' # recState =>
       /\ << recState, recState' >> \in StatusChain
       /\ recState \in {"done", "error"} => Record]_vars

\* one of the three capture error conditions happens in this step
CaptureError ==
  \/ Record /\ (~env.captureStream \/ FirstSupported(env, 1) = "")
  \/ Failure

\* C2: each capture error condition sets a message and the status "error", and
\* the status then stays "error" until the user invokes Record again: no timer
\* and no recorder callback moves it out of "error".
C2_ErrorIsTerminal ==
  [][/\ CaptureError => (errorMsg' # "" /\ recState' = "error")
     /\ (recState = "error" /\ (Timer \/ Stopped \/ Failure)) => recState' = "error"]_vars

\* C3: handleRecord on a canvas without captureStream ends with status "error"
\* and a non-empty message, creates no recorder and no video URL, and leaves
\* the animation driver (animRef, the pending frame callbacks, the effect
\* runs) as it was.
C3_UnsupportedCapture ==
  [][(Record /\ ~env.captureStream) =>
       /\ recState' = "error"
       /\ errorMsg' # ""
       /\ videoUrl' = 0
       /\ recs' = recs /\ nRecs' = nRecs
       /\ animRef' = animRef /\ rafQueue' = rafQueue /\ effects' = effects]_vars

\* reached: the capture was refused for want of captureStream while the render
\* loop is running, has drawn a frame and has its next callback pending
C3_Witness ==
  /\ ~env.captureStream
  /\ recState = "error" /\ errorMsg = MsgNoCapture /\ nRecs = 0
  /\ animRef.running
  /\ rafQueue # << >>
  /\ \E k \in 1..Len(frameLog) : frameLog[k].drew

\* C4: once the cleanup of an effect run has set running to false, that run's
\* render callback never draws again and never registers itself again,
\* whatever happens afterwards.
C4_NoFramesAfterTeardown ==
  [][\A e \in EffectIds :
       effects[e].state = "cleaned" =>
         /\ drawn'[e] = drawn[e]
         /\ \A k \in 1..Len(rafQueue') :
              rafQueue'[k].effect = e =>
                \E j \in 1..Len(rafQueue) : rafQueue[j] = rafQueue'[k]]_vars

\* how many descriptors of trees have layer l
LayerCount(trees, l) == Cardinality({ k \in 1..Len(trees) : trees[k].layer = l })

SortedByLayer(trees) ==
  \A k \in 1..(Len(trees) - 1) : trees[k].layer <= trees[k + 1].layer

\* C5: generateTrees(n, W, H) returns exactly n descriptors, each of layer 0, 1
\* or 2, sorted non-decreasing by layer, with as many descriptors of layer l as
\* there are indices i < n with i mod 3 = l.
C5_TreesSortedAndCounted ==
  call.stage \in {"trees", "painted"} =>
    /\ Len(call.trees) = call.count
    /\ \A k \in 1..Len(call.trees) : call.trees[k].layer \in {0, 1, 2}
    /\ SortedByLayer(call.trees)
    /\ \A l \in {0, 1, 2} :
         LayerCount(call.trees, l)
           = Cardinality({ i \in 0..(call.count - 1) : i % 3 = l })

\* reached: the 24 trees of the page, 8 of each layer
C5_Witness ==
  /\ call.stage = "trees"
  /\ call.count = TreeCount
  /\ \A l \in {0, 1, 2} : LayerCount(call.trees, l) = 8
  /\ call.trees[1].layer = 0 /\ call.trees[TreeCount].layer = 2

\* C6: for every descriptor of generateTrees and every elapsed time e >= 0, the
\* screen position drawForest computes is the same at e and at
\* e + (2 * W) / speed.
C6_WrapPeriod ==
  call.stage = "painted" =>
    \A k \in 1..Len(call.trees) :
      call.painted[k].px
        = ScreenX(call.trees[k],
                  call.t + ((2 * Width) \div LayerSpeed(call.trees[k].layer)), Width)

\* C7: every frame callback that draws issues sky, hills, forest, ground,
\* character, grass in that order, each once, all before it registers the next
\* callback; and the forest step paints the trees in the order of the sorted
\* list, no tree of a nearer layer before a tree of a farther one.
C7_DrawOrder ==
  \A k \in 1..Len(frameLog) :
    LET steps == frameLog[k].steps
        n == TreeCount
    IN  IF ~frameLog[k].drew THEN steps = << >>
        ELSE /\ Len(steps) = n + 6
             /\ steps[1].op = "sky"
             /\ steps[2].op = "hills"
             /\ \A j \in 3..(n + 2) : steps[j].op = "tree"
             /\ \A j \in 3..(n + 1) : steps[j].layer <= steps[j + 1].layer
             /\ { steps[j].i : j \in 3..(n + 2) } = 0..(n - 1)
             /\ steps[n + 3].op = "ground"
             /\ steps[n + 4].op = "cat"
             /\ steps[n + 5].op = "grass"
             /\ steps[n + 6].op = "raf"

\* reached: a frame that has drawn, painting from the far layer to the near one
C7_Witness ==
  \E k \in 1..Len(frameLog) :
    /\ frameLog[k].drew
    /\ frameLog[k].steps[3].layer = 0
    /\ frameLog[k].steps[TreeCount + 2].layer = 2
    /\ \E j \in 1..Len(rafQueue) : rafQueue[j].effect = frameLog[k].effect

\* C8: within one effect run, startTime is set by the first frame callback, to
\* that callback's timestamp, and is assigned by no later one; elapsed is 0 on
\* the first frame and does not decrease afterwards.
C8_StartTimeSetOnce ==
  [][\A k \in 1..Len(frameLog') :
       (frameLog' # frameLog /\ frameLog'[k].drew) =>
         LET f == frameLog'[k]
         IN  /\ drawn[f.effect] = 0 =>
                  (f.assigned /\ animRef'.startTime = f.t /\ f.elapsed = 0)
             /\ drawn[f.effect] > 0 => ~f.assigned
             /\ \A j \in 1..Len(frameLog) :
                  (frameLog[j].effect = f.effect /\ frameLog[j].drew)
                    => frameLog[j].elapsed <= f.elapsed]_vars

\* the invocations that have started their recorder and not yet ended
InProgress == { s \in RecIds : recs[s].pc \in {"wait", "stop"} }

\* C9: at most one recording session is in progress at any time.
C9_OneSessionAtATime == Cardinality(InProgress) <= 1

\* C10: with timers that fire and events that are delivered, a status of
\* "recording" or "processing" always leads to "done" or "error": the status
\* never stays "processing" for ever.
C10_EventuallySettles ==
  (recState \in {"recording", "processing"}) ~> (recState \in {"done", "error"})

====
